---- MODULE Spec2Model ----
(***************************************************************************)
(* Model of setup-image-analysis.py: the installer script that checks the  *)
(* interpreter, asks the operator for confirmation, installs four packages *)
(* with two pip strategies each, and probes two optional tools.            *)
(*                                                                         *)
(* A line of operator input is a sequence of one-character strings.  Every *)
(* subprocess the script starts is appended to `commands` together with    *)
(* its outcome; every print statement appends one record to `output`.      *)
(***************************************************************************)
EXTENDS Integers, Sequences, FiniteSets, TLC

\* Longest operator input line that is enumerated.
MaxInputLen == 3

\* Characters an input line is built from (upper and lower case letters of
\* the affirmative tokens, a letter of neither, and white space).
Alphabet == {"y", "Y", "e", "E", "s", "S", "n", " "}

InputLines == UNION { [1..n -> Alphabet] : n \in 0..MaxInputLen }

\* sys.platform values: the two the script names and one it does not.
Platforms == {"darwin", "linux", "win32"}

\* sys.executable: an absolute path, never one of the bare command names.
SysExecutable == "sys.executable"

\* Outcomes of subprocess.check_output in check_python.
\*   "ok"        exit status zero
\*   "nonzero"   CalledProcessError
\*   "oserror"   the process could not be started (an Exception)
\*   "interrupt" KeyboardInterrupt while waiting (a BaseException)
CheckOutcomes == {"ok", "nonzero", "oserror", "interrupt"}

\* Outcomes of subprocess.check_call in run_command; everything that is not
\* a CalledProcessError leaves run_command the same way, so one exception
\* stands for them.
RunOutcomes == {"ok", "nonzero", "interrupt"}

VARIABLES
    python3OnPath,   \* shutil.which('python3') finds something
    pythonOnPath,    \* shutil.which('python') finds something
    platform,        \* sys.platform
    pc,              \* position of the script
    python_cmd,      \* main's local python_cmd
    inst_python_cmd, \* install_dependencies' local python_cmd
    inputLine,       \* the raw line input() returned, until it is normalised
    response,        \* main's local response
    pkgIdx,          \* index of the package of the outer loop
    methodIdx,       \* index of the method of the inner loop
    installed,       \* install_dependencies' local installed
    commands,        \* subprocesses started so far, with outcome
    output,          \* lines printed so far
    result,          \* how main ended: "running", "True", "False", "raised"
    exitCode         \* <<n>> once sys.exit(n) was called, <<>> before

vars == <<python3OnPath, pythonOnPath, platform, pc, python_cmd, inst_python_cmd,
          inputLine, response, pkgIdx, methodIdx, installed, commands, output,
          result, exitCode>>

\* Value of inputLine before input() has returned: no line that can be typed.
NoLine == <<"<none>">>

----------------------------------------------------------------------------
\* get_python_command
get_python_command_prefers_python(p3, p) ==
    IF p THEN "python"
    ELSE IF p3 THEN "python3"
    ELSE SysExecutable

get_python_command(p3, p) ==
    IF p3 THEN "python3"
    ELSE IF p THEN "python"
    ELSE SysExecutable

\* run_command: True on exit status zero, False on CalledProcessError; any
\* other exception leaves the function.
run_command(o) == o = "ok"

run_command_raises(o) == o \notin {"ok", "nonzero"}

\* check_python: True on success, False on any Exception; a BaseException
\* that is no Exception (KeyboardInterrupt) leaves the function.
check_python(o) == o = "ok"

check_python_raises(o) == o = "interrupt"

\* str.lower on one character
LowerChar(c) ==
    CASE c = "Y" -> "y"
      [] c = "E" -> "e"
      [] c = "S" -> "s"
      [] OTHER   -> c

\* str.lower
Lower_identity(s) == s

Lower(s) == [i \in DOMAIN s |-> LowerChar(s[i])]

IsSpace(c) == c = " "

\* str.strip: drop leading and trailing white space
RECURSIVE LStrip(_)
LStrip(s) == IF s # <<>> /\ IsSpace(Head(s)) THEN LStrip(Tail(s)) ELSE s

RECURSIVE RStrip(_)
RStrip(s) ==
    IF s # <<>> /\ IsSpace(s[Len(s)]) THEN RStrip(SubSeq(s, 1, Len(s) - 1)) ELSE s

Strip(s) == RStrip(LStrip(s))

\* the list ['y', 'yes'] of main
AffirmativeTokens == {<<"y">>, <<"y", "e", "s">>}

\* packages of install_dependencies
packages == <<"torch", "transformers", "Pillow", "numpy">>

\* install_methods of install_dependencies: (flag, description)
install_methods_swapped ==
    << <<"--break-system-packages", "system packages (with override)">>,
       <<"--user", "user directory">> >>

install_methods ==
    << <<"--user", "user directory">>,
       <<"--break-system-packages", "system packages (with override)">> >>

----------------------------------------------------------------------------
\* A printed line: the text of the print statement and the values it
\* interpolates.
P(text, a, b) == [text |-> text, a |-> a, b |-> b]

T(text) == P(text, "", "")

\* A started subprocess: what was run and how it ended.
Cmd(kind, prog, flag, pkg, o) ==
    [kind |-> kind, prog |-> prog, flag |-> flag, pkg |-> pkg, outcome |-> o]

\* Lines 121-122 of main
BannerLines ==
    << T("EPUB Accessibility Fixer - Image Analysis Setup"), T("=" ) >>

\* Lines 128-135 of main
PackageListLines(cmd) ==
    << P("Using Python: {python_cmd}", cmd, ""),
       T("This will install Python packages for AI-powered image analysis."),
       T("This enables automatic generation of meaningful alt text based on image content."),
       T("Packages to be installed:"),
       T("- torch (PyTorch)"),
       T("- transformers (Hugging Face)"),
       T("- Pillow (PIL)"),
       T("- numpy") >>

\* Lines 143-146 of main
SuccessLines ==
    << T("All Python packages installed successfully!"),
       T("Image analysis capabilities are now available."),
       T("The alt text fixer will automatically use AI models to generate"),
       T("descriptive alt text based on actual image content.") >>

\* Lines 148-158 of main
RemediationLines(cmd) ==
    << T("Some packages failed to install."),
       T("For externally managed Python environments (like Homebrew), try:"),
       T("1. Using pipx (recommended):"),
       T("   brew install pipx"),
       T("   pipx install torch transformers Pillow numpy"),
       T("2. Using virtual environment:"),
       P("   {python_cmd} -m venv epub-env", cmd, ""),
       T("   source epub-env/bin/activate"),
       P("   {python_cmd} -m pip install torch transformers Pillow numpy", cmd, ""),
       T("3. Force install to user directory:"),
       P("   {python_cmd} -m pip install --user torch transformers Pillow numpy", cmd, "") >>

\* Lines 163-166 of main
CompleteLines ==
    << T("Setup complete!"),
       T("Usage:"),
       T("The image analysis will be used automatically when fixing alt text."),
       T("No additional configuration is required.") >>

\* Lines 78-82 of install_dependencies
InstallFailedLines(cmd, package) ==
    << P("Failed to install {package} with all methods", package, ""),
       T("You may need to create a virtual environment:"),
       P("  {python_cmd} -m venv epub-env", cmd, ""),
       T("  source epub-env/bin/activate  # On macOS/Linux"),
       P("  {python_cmd} -m pip install {package}", cmd, package) >>

\* Lines 92-102 of check_optional_tools
tesseract_lines_if_not_elif(found, plat) ==
    IF found THEN << T("Tesseract OCR is available") >>
    ELSE << T("! Tesseract OCR not found. Install it for text extraction from images:") >>
         \o (IF plat = "darwin" THEN << T("  brew install tesseract") >> ELSE << >>)
         \o (IF plat = "linux"
             THEN << T("  sudo apt-get install tesseract-ocr  # Debian/Ubuntu"),
                     T("  sudo yum install tesseract          # CentOS/RHEL") >>
             ELSE << T("  See: https://github.com/tesseract-ocr/tesseract") >>)

tesseract_lines(found, plat) ==
    IF found THEN << T("Tesseract OCR is available") >>
    ELSE << T("! Tesseract OCR not found. Install it for text extraction from images:") >>
         \o (IF plat = "darwin" THEN << T("  brew install tesseract") >>
             ELSE IF plat = "linux"
             THEN << T("  sudo apt-get install tesseract-ocr  # Debian/Ubuntu"),
                     T("  sudo yum install tesseract          # CentOS/RHEL") >>
             ELSE << T("  See: https://github.com/tesseract-ocr/tesseract") >>)

\* Lines 105-115 of check_optional_tools
exiftool_lines_needs_tesseract(found, plat) ==
    IF found /\ commands[Len(commands)].outcome = "ok"
    THEN << T("ExifTool is available") >>
    ELSE << T("! ExifTool not found. Install it for image metadata extraction:") >>
         \o (IF plat = "darwin" THEN << T("  brew install exiftool") >>
             ELSE IF plat = "linux"
             THEN << T("  sudo apt-get install libimage-exiftool-perl  # Debian/Ubuntu"),
                     T("  sudo yum install perl-Image-ExifTool         # CentOS/RHEL") >>
             ELSE << T("  See: https://exiftool.org/") >>)

exiftool_lines(found, plat) ==
    IF found THEN << T("ExifTool is available") >>
    ELSE << T("! ExifTool not found. Install it for image metadata extraction:") >>
         \o (IF plat = "darwin" THEN << T("  brew install exiftool") >>
             ELSE IF plat = "linux"
             THEN << T("  sudo apt-get install libimage-exiftool-perl  # Debian/Ubuntu"),
                     T("  sudo yum install perl-Image-ExifTool         # CentOS/RHEL") >>
             ELSE << T("  See: https://exiftool.org/") >>)

----------------------------------------------------------------------------
\* Where main goes after each of its decisions.

\* Line 172: sys.exit(0 if success else 1)
exit_code_always_zero(success) == 0

exit_code(success) == IF success THEN 0 ELSE 1

\* Lines 124-126: if not check_python(): ... return False
after_check_python_ignored(ok) == "input"

after_check_python(ok) == IF ok THEN "input" ELSE "return False"

\* Lines 137-140: the confirmation gate
normalise(line) == Strip(Lower(line))

after_input(resp) ==
    IF resp \notin AffirmativeTokens THEN "return False" ELSE "install"

\* Lines 142-161: if install_dependencies(): ... else: ... return False
after_install_falls_through(ok) == "tesseract"

after_install(ok) == IF ok THEN "tesseract" ELSE "return False"

\* main returns b and line 172 exits with the matching code
Return(b) ==
    /\ pc' = "exited"
    /\ result' = IF b THEN "True" ELSE "False"
    /\ exitCode' = << exit_code(b) >>

\* an exception leaves main: the interpreter prints a traceback, sys.exit
\* is not reached
Raise ==
    /\ pc' = "exited"
    /\ result' = "raised"
    /\ exitCode' = exitCode

\* continue main at position p
Goto(p) ==
    IF p = "return False" THEN Return(FALSE)
    ELSE /\ pc' = p
         /\ UNCHANGED <<result, exitCode>>

----------------------------------------------------------------------------
Init ==
    /\ python3OnPath \in BOOLEAN
    /\ pythonOnPath \in BOOLEAN
    /\ platform \in Platforms
    /\ pc = "main"
    /\ python_cmd = ""
    /\ inst_python_cmd = ""
    /\ inputLine = NoLine
    /\ response = NoLine
    /\ pkgIdx = 1
    /\ methodIdx = 1
    /\ installed = FALSE
    /\ commands = << >>
    /\ output = << >>
    /\ result = "running"
    /\ exitCode = << >>

env == <<python3OnPath, pythonOnPath, platform>>

\* main, lines 119-122
MainStart ==
    /\ pc = "main"
    /\ python_cmd' = get_python_command(python3OnPath, pythonOnPath)
    /\ output' = output \o BannerLines
    /\ pc' = "check_python"
    /\ UNCHANGED <<env, inst_python_cmd, inputLine, response, pkgIdx, methodIdx,
                   installed, commands, result, exitCode>>

\* check_python and lines 124-135 of main
CheckPython(o) ==
    /\ pc = "check_python"
    /\ commands' = Append(commands, Cmd("version", SysExecutable, "--version", "", o))
    /\ IF check_python_raises(o)
       THEN /\ Raise
            /\ UNCHANGED output
       ELSE IF check_python(o)
       THEN /\ Goto(after_check_python(TRUE))
            /\ output' = output \o << T("Python found: {version}") >>
                                \o (IF after_check_python(TRUE) = "input"
                                    THEN PackageListLines(python_cmd) ELSE << >>)
       ELSE /\ Goto(after_check_python(FALSE))
            /\ output' = output \o << T("Python not found: {e}") >>
                 \o (IF after_check_python(FALSE) = "input"
                     THEN PackageListLines(python_cmd)
                     ELSE << T("Python is required but not found. Please install Python 3.7+ and try again.") >>)
    /\ UNCHANGED <<env, python_cmd, inst_python_cmd, inputLine, response, pkgIdx,
                   methodIdx, installed>>

\* Line 137 of main: input() returns a line, response is computed from it
Input(line) ==
    /\ pc = "input"
    /\ inputLine' = line
    /\ response' = normalise(line)
    /\ pc' = "gate"
    /\ output' = Append(output, T("Do you want to proceed? (y/N): "))
    /\ UNCHANGED <<env, python_cmd, inst_python_cmd, pkgIdx, methodIdx, installed,
                   commands, result, exitCode>>

\* Lines 138-140 of main and lines 46-65 of install_dependencies
Gate ==
    /\ pc = "gate"
    /\ inputLine' = NoLine
    /\ Goto(after_input(response))
    /\ IF after_input(response) = "install"
       THEN /\ inst_python_cmd' = get_python_command(python3OnPath, pythonOnPath)
            /\ output' = output \o
                 << P("Using Python command: {python_cmd}", inst_python_cmd', ""),
                    T("Installing Python packages for image analysis..."),
                    P("Installing {package}...", packages[1], "") >>
       ELSE /\ output' = output \o << T("Setup cancelled.") >>
            /\ UNCHANGED inst_python_cmd
    /\ UNCHANGED <<env, python_cmd, response, pkgIdx, methodIdx, installed, commands>>

\* input() raises EOFError or KeyboardInterrupt
InputRaises ==
    /\ pc = "input"
    /\ Raise
    /\ output' = Append(output, T("Do you want to proceed? (y/N): "))
    /\ UNCHANGED <<env, python_cmd, inst_python_cmd, inputLine, response, pkgIdx,
                   methodIdx, installed, commands>>

\* One pass of the inner loop of install_dependencies (lines 68-75), with
\* what follows it when the loop over methods or packages ends (lines 64-66,
\* 77-85) and, when install_dependencies returns, lines 142-159 of main.
InstallAttempt(o) ==
    /\ pc = "install"
    /\ LET package == packages[pkgIdx]
           method_flag == install_methods[methodIdx][1]
           method_desc == install_methods[methodIdx][2]
           ok == ~run_command_raises(o) /\ run_command(o)
       IN  /\ commands' = Append(commands,
                                 Cmd("pip", inst_python_cmd, method_flag, package, o))
           /\ IF ok
              THEN IF pkgIdx < Len(packages)
                   THEN /\ pkgIdx' = pkgIdx + 1
                        /\ methodIdx' = 1
                        /\ installed' = FALSE
                        /\ output' = output \o
                             << P("{package} installed successfully (using {method_desc})",
                                  package, method_desc),
                                P("Installing {package}...", packages[pkgIdx + 1], "") >>
                        /\ UNCHANGED <<pc, result, exitCode>>
                   ELSE /\ installed' = TRUE
                        /\ output' = output \o
                             << P("{package} installed successfully (using {method_desc})",
                                  package, method_desc) >> \o SuccessLines
                        /\ Goto(after_install(TRUE))
                        /\ UNCHANGED <<pkgIdx, methodIdx>>
              ELSE IF methodIdx < Len(install_methods)
                   THEN /\ methodIdx' = methodIdx + 1
                        /\ UNCHANGED <<pkgIdx, installed, output, pc, result, exitCode>>
                   ELSE /\ output' = output \o InstallFailedLines(inst_python_cmd, package)
                                            \o RemediationLines(python_cmd)
                        /\ Goto(after_install(FALSE))
                        /\ UNCHANGED <<pkgIdx, methodIdx, installed>>
    /\ UNCHANGED <<env, python_cmd, inst_python_cmd, inputLine, response>>

\* check_optional_tools, lines 89-102
ProbeTesseract(o) ==
    /\ pc = "tesseract"
    /\ commands' = Append(commands, Cmd("tesseract", "tesseract", "--version", "", o))
    /\ IF run_command_raises(o)
       THEN /\ Raise
            /\ output' = Append(output, T("Checking optional tools:"))
       ELSE /\ pc' = "exiftool"
            /\ output' = Append(output, T("Checking optional tools:"))
                           \o tesseract_lines(run_command(o), platform)
            /\ UNCHANGED <<result, exitCode>>
    /\ UNCHANGED <<env, python_cmd, inst_python_cmd, inputLine, response, pkgIdx,
                   methodIdx, installed>>

\* check_optional_tools, lines 104-115, and lines 163-168 of main
ProbeExiftool(o) ==
    /\ pc = "exiftool"
    /\ commands' = Append(commands, Cmd("exiftool", "exiftool", "-ver", "", o))
    /\ IF run_command_raises(o)
       THEN /\ Raise
            /\ UNCHANGED output
       ELSE /\ Return(TRUE)
            /\ output' = output \o exiftool_lines(run_command(o), platform)
                                \o CompleteLines
    /\ UNCHANGED <<env, python_cmd, inst_python_cmd, inputLine, response, pkgIdx,
                   methodIdx, installed>>

Next ==
    \/ MainStart
    \/ \E o \in CheckOutcomes : CheckPython(o)
    \/ \E line \in InputLines : Input(line)
    \/ Gate
    \/ InputRaises
    \/ \E o \in RunOutcomes : InstallAttempt(o)
    \/ \E o \in RunOutcomes : ProbeTesseract(o)
    \/ \E o \in RunOutcomes : ProbeExiftool(o)

Spec == Init /\ [][Next]_vars

----------------------------------------------------------------------------
\* What the logs say.

Ran(kind) == \E i \in DOMAIN commands : commands[i].kind = kind

RanWith(kind, outcomes) ==
    \E i \in DOMAIN commands : commands[i].kind = kind /\ commands[i].outcome \in outcomes

IsPip(c) == c.kind = "pip"

PipLog == SelectSeq(commands, IsPip)

IsProbe(c) == c.kind \in {"tesseract", "exiftool"}

ProbeLog == SelectSeq(commands, IsProbe)

PackageInstalled(package) ==
    \E i \in DOMAIN commands :
        /\ commands[i].kind = "pip"
        /\ commands[i].pkg = package
        /\ commands[i].outcome = "ok"

StrategyFailed(package, flag) ==
    \E i \in DOMAIN commands :
        /\ commands[i].kind = "pip"
        /\ commands[i].pkg = package
        /\ commands[i].flag = flag
        /\ commands[i].outcome # "ok"

FailedBoth(package) ==
    /\ StrategyFailed(package, "--user")
    /\ StrategyFailed(package, "--break-system-packages")

Printed(text) == \E i \in DOMAIN output : output[i].text = text

TimesPrinted(text) == Cardinality({i \in DOMAIN output : output[i].text = text})

MainReturned == pc = "exited" /\ result \in {"True", "False"}

\* A raw line that is "y" or "yes" in any letter case, with white space
\* around it.
IsAffirmativeLine(line) ==
    \E lo \in 1..Len(line) : \E hi \in lo..Len(line) :
        /\ \A k \in 1..Len(line) : (k < lo \/ k > hi) => line[k] = " "
        /\ \/ hi = lo /\ line[lo] \in {"y", "Y"}
           \/ /\ hi = lo + 2
              /\ line[lo] \in {"y", "Y"}
              /\ line[lo + 1] \in {"e", "E"}
              /\ line[lo + 2] \in {"s", "S"}

----------------------------------------------------------------------------
\* C1: when main returns, the exit code is 0 exactly when the availability
\* check passed, the operator answered "y" or "yes", and each of the four
\* packages was installed by some strategy; otherwise it is 1.
C1_ExitCode ==
    MainReturned =>
        /\ exitCode \in {<<0>>, <<1>>}
        /\ exitCode = <<0>> <=>
             /\ RanWith("version", {"ok"})
             /\ response \in {<<"y">>, <<"y", "e", "s">>}
             /\ \A package \in {"torch", "transformers", "Pillow", "numpy"} :
                    PackageInstalled(package)

C1_Witness ==
    /\ MainReturned
    /\ exitCode = <<0>>
    /\ StrategyFailed("Pillow", "--user")
    /\ PackageInstalled("Pillow")

\* C2 as stated: when transformers fails both strategies the run exits with
\* code 1, the remediation text is printed, Pillow and numpy are never
\* attempted, and the optional-tool section still runs.
C2_OptionalToolsStillRun ==
    FailedBoth("transformers") =>
        /\ pc = "exited"
        /\ exitCode = <<1>>
        /\ Printed("Some packages failed to install.")
        /\ \A i \in DOMAIN commands : commands[i].pkg \notin {"Pillow", "numpy"}
        /\ Printed("Checking optional tools:")
        /\ Ran("tesseract")
        /\ Ran("exiftool")

\* C2 amended: when transformers fails both strategies the run exits with
\* code 1, the remediation text is printed, Pillow and numpy are never
\* attempted, and the optional-tool section does not run.
C2_OptionalToolsSkipped ==
    FailedBoth("transformers") =>
        /\ pc = "exited"
        /\ exitCode = <<1>>
        /\ Printed("Some packages failed to install.")
        /\ Printed("You may need to create a virtual environment:")
        /\ \A i \in DOMAIN commands : commands[i].pkg \notin {"Pillow", "numpy"}
        /\ ~Printed("Checking optional tools:")
        /\ ~Ran("tesseract")
        /\ ~Ran("exiftool")

C2_Witness ==
    /\ FailedBoth("transformers")
    /\ PackageInstalled("torch")
    /\ pc = "exited"

\* C3: main goes on to install_dependencies only if the input line, trimmed
\* and lower-cased, is "y" or "yes"; for any other line it prints the
\* cancellation message, starts no pip command and no tool probe, and exits
\* with code 1.
C3_ConfirmationGate ==
    /\ pc = "gate" =>
          (response \in {<<"y">>, <<"y", "e", "s">>} <=> IsAffirmativeLine(inputLine))
    /\ (pc \in {"install", "tesseract", "exiftool"} \/ Ran("pip") \/ inst_python_cmd # "")
          => response \in {<<"y">>, <<"y", "e", "s">>}
    /\ (pc # "gate" /\ response \in {<<"y">>, <<"y", "e", "s">>})
          => Printed("Installing Python packages for image analysis...")
    /\ (pc # "gate" /\ response \notin {NoLine, <<"y">>, <<"y", "e", "s">>})
          => /\ pc = "exited"
             /\ Printed("Setup cancelled.")
             /\ ~Ran("pip") /\ ~Ran("tesseract") /\ ~Ran("exiftool")
             /\ exitCode = <<1>>

C3_Witness ==
    /\ pc = "exited"
    /\ response = <<"n">>
    /\ Printed("Setup cancelled.")
    /\ exitCode = <<1>>

\* Position of a package in the fixed order torch, transformers, Pillow, numpy.
PackageRank(package) ==
    CASE package = "torch" -> 1
      [] package = "transformers" -> 2
      [] package = "Pillow" -> 3
      [] package = "numpy" -> 4
      [] OTHER -> 0

\* C4: packages are attempted in the order torch, transformers, Pillow,
\* numpy, each with --user first and --break-system-packages second; the
\* second strategy runs only after the first failed, a success ends the
\* strategies of its package and marks it installed, a package that fails
\* both ends install_dependencies with False, and no (package, strategy)
\* pair runs twice.
C4_InstallOrder ==
    LET log == PipLog
    IN  /\ log # << >> =>
              log[1].pkg = "torch" /\ log[1].flag = "--user"
        /\ \A i \in DOMAIN log :
              /\ PackageRank(log[i].pkg) \in 1..4
              /\ log[i].flag \in {"--user", "--break-system-packages"}
              /\ log[i].flag = "--break-system-packages" =>
                    /\ i > 1
                    /\ log[i - 1].pkg = log[i].pkg
                    /\ log[i - 1].flag = "--user"
                    /\ log[i - 1].outcome # "ok"
              /\ (log[i].flag = "--user" /\ i > 1) =>
                    /\ PackageRank(log[i].pkg) = PackageRank(log[i - 1].pkg) + 1
                    /\ log[i - 1].outcome = "ok"
              /\ log[i].outcome = "ok" =>
                    \E k \in DOMAIN output :
                        /\ output[k].text = "{package} installed successfully (using {method_desc})"
                        /\ output[k].a = log[i].pkg
              /\ (log[i].flag = "--break-system-packages" /\ log[i].outcome # "ok") =>
                    /\ i = Len(log)
                    /\ pc = "exited"
                    /\ result = "False"
        /\ \A i, j \in DOMAIN log :
              (log[i].pkg = log[j].pkg /\ log[i].flag = log[j].flag) => i = j

C4_Witness ==
    /\ pc = "exited"
    /\ StrategyFailed("torch", "--user")
    /\ PackageInstalled("torch")
    /\ FailedBoth("Pillow")

\* C5: when check_python fails (non-zero exit or an exception starting the
\* interpreter) the operator is never prompted, no pip command and no tool
\* probe is started, and the process exits with code 1.
C5_CheckFailureStops ==
    RanWith("version", {"nonzero", "oserror"}) =>
        /\ pc = "exited"
        /\ exitCode = <<1>>
        /\ ~Printed("Do you want to proceed? (y/N): ")
        /\ inputLine = NoLine /\ response = NoLine
        /\ ~Ran("pip") /\ ~Ran("tesseract") /\ ~Ran("exiftool")
        /\ Printed("Python is required but not found. Please install Python 3.7+ and try again.")

C5_Witness ==
    /\ RanWith("version", {"oserror"})
    /\ pc = "exited"
    /\ result = "False"

\* C6 as stated: the command check_python runs with --version is the
\* interpreter command get_python_command returned, the one
\* install_dependencies runs pip with.
C6_CheckRunsChosenInterpreter ==
    \A i \in DOMAIN commands :
        commands[i].kind = "version" =>
            /\ commands[i].prog = python_cmd
            /\ \A j \in DOMAIN commands :
                   commands[j].kind = "pip" => commands[j].prog = commands[i].prog

\* C7: get_python_command returns python3 whenever python3 is on the PATH,
\* python when only python is, and sys.executable when neither is; it always
\* returns one of the three, and both of its calls in a run agree.
C7_InterpreterResolution ==
    /\ pc # "main" =>
          /\ python_cmd \in {"python3", "python", SysExecutable}
          /\ python3OnPath => python_cmd = "python3"
          /\ (~python3OnPath /\ pythonOnPath) => python_cmd = "python"
          /\ (~python3OnPath /\ ~pythonOnPath) => python_cmd = SysExecutable
    /\ Printed("Installing Python packages for image analysis...") =>
          /\ inst_python_cmd = python_cmd
          /\ \A i \in DOMAIN commands :
                 commands[i].kind = "pip" => commands[i].prog = python_cmd

C7_Witness ==
    /\ python3OnPath
    /\ pythonOnPath
    /\ Ran("pip")
    /\ inst_python_cmd = "python3"

\* C8: once check_optional_tools is reached the Tesseract probe and then the
\* ExifTool probe are performed whatever the other finds, each tool's
\* message follows its own probe alone, and the exit code is 0 for all four
\* combinations of present and absent.
C8_ProbesIndependent ==
    /\ \A i \in DOMAIN ProbeLog :
          ProbeLog[i].kind = (IF i = 1 THEN "tesseract" ELSE "exiftool")
    /\ Len(ProbeLog) <= 2
    /\ \A o \in {"ok", "nonzero"} :
          /\ RanWith("tesseract", {o}) =>
                /\ pc \in {"exiftool", "exited"}
                /\ pc = "exited" => Ran("exiftool")
                /\ Printed("Tesseract OCR is available") <=> o = "ok"
                /\ Printed("! Tesseract OCR not found. Install it for text extraction from images:")
                      <=> o = "nonzero"
          /\ RanWith("exiftool", {o}) =>
                /\ Printed("ExifTool is available") <=> o = "ok"
                /\ Printed("! ExifTool not found. Install it for image metadata extraction:")
                      <=> o = "nonzero"
                /\ pc = "exited"
                /\ exitCode = <<0>>
                /\ Printed("Setup complete!")

C8_Witness ==
    /\ RanWith("tesseract", {"nonzero"})
    /\ RanWith("exiftool", {"ok"})
    /\ pc = "exited"
    /\ exitCode = <<0>>

\* The platform bucket of a sys.platform value.
Bucket(plat) ==
    IF plat = "darwin" THEN "macOS" ELSE IF plat = "linux" THEN "Linux" ELSE "other"

\* The remediation block of a tool for a platform bucket.
Block(tool, bucket) ==
    CASE tool = "tesseract" /\ bucket = "macOS" -> {"  brew install tesseract"}
      [] tool = "tesseract" /\ bucket = "Linux" ->
            {"  sudo apt-get install tesseract-ocr  # Debian/Ubuntu",
             "  sudo yum install tesseract          # CentOS/RHEL"}
      [] tool = "tesseract" /\ bucket = "other" ->
            {"  See: https://github.com/tesseract-ocr/tesseract"}
      [] tool = "exiftool" /\ bucket = "macOS" -> {"  brew install exiftool"}
      [] tool = "exiftool" /\ bucket = "Linux" ->
            {"  sudo apt-get install libimage-exiftool-perl  # Debian/Ubuntu",
             "  sudo yum install perl-Image-ExifTool         # CentOS/RHEL"}
      [] tool = "exiftool" /\ bucket = "other" -> {"  See: https://exiftool.org/"}

\* C9: for an absent tool check_optional_tools prints the remediation block
\* of the platform's bucket, once, and no line of the other two buckets'
\* blocks; for a present tool it prints no remediation block.
C9_OneRemediationBlock ==
    \A tool \in {"tesseract", "exiftool"} :
        /\ RanWith(tool, {"nonzero"}) =>
              \A bucket \in {"macOS", "Linux", "other"} :
                  \A text \in Block(tool, bucket) :
                      TimesPrinted(text) = (IF bucket = Bucket(platform) THEN 1 ELSE 0)
        /\ ~RanWith(tool, {"nonzero"}) =>
              \A bucket \in {"macOS", "Linux", "other"} :
                  \A text \in Block(tool, bucket) : ~Printed(text)

C9_Witness ==
    /\ platform = "win32"
    /\ RanWith("tesseract", {"nonzero"})
    /\ RanWith("exiftool", {"nonzero"})
    /\ pc = "exited"

\* C10 as stated: after an interrupt (or another exception that is no
\* non-zero exit status) raised during a pip command, no further pip command
\* is started.
C10_InterruptStopsInstall ==
    \A i, j \in DOMAIN commands :
        (i < j /\ commands[i].kind = "pip" /\ commands[i].outcome = "interrupt")
            => commands[j].kind # "pip"

====
